---- MODULE Spec2Model ----
\* Migration versioning and rollback engine of the Supabase/Coolify MCP server
\* (SupabaseManager in src/src/resources.ts).  The History Store is the table
\* supabase_migrations.schema_migrations, the Rollback Ledger is the table
\* _migration_rollbacks, the Execution Gateway is the SQL-executing RPC
\* endpoints (rpc exec, rpc exec_sql, POST /rest/v1/rpc/query).
EXTENDS Integers, Sequences, FiniteSets, TLC

\* ---------------------------------------------------------------- bounds
\* The clock runs over StartSec .. StartSec + MaxTicks (whole seconds).
MaxTicks == 1
\* The largest count handed to rollbackLastMigrations.
MaxCount == 2

\* 2024-12-31T23:59:59Z in seconds since the epoch: the modelled seconds
\* cross a minute, hour, day, month and year boundary.
StartSec == 1735689600 - 1

ClockRange == StartSec .. (StartSec + MaxTicks)

\* --------------------------------------------------- Date.toISOString()
DigitChars == <<"0", "1", "2", "3", "4", "5", "6", "7", "8", "9">>

Digit(n) == DigitChars[n + 1]

Pow10(k) == IF k = 0 THEN 1 ELSE IF k = 1 THEN 10 ELSE IF k = 2 THEN 100 ELSE 1000

\* n as w decimal digits, zero padded
Pad(n, w) == [i \in 1..w |-> Digit((n \div Pow10(w - i)) % 10)]

\* proleptic Gregorian date of a day number counted from 1970-01-01
CivilFromDays(days) ==
    LET z   == days + 719468
        era == z \div 146097
        doe == z - era * 146097
        yoe == (doe - doe \div 1460 + doe \div 36524 - doe \div 146096) \div 365
        doy == doe - (365 * yoe + yoe \div 4 - yoe \div 100)
        mp  == (5 * doy + 2) \div 153
        d   == doy - (153 * mp + 2) \div 5 + 1
        m   == IF mp < 10 THEN mp + 3 ELSE mp - 9
        y   == yoe + era * 400 + (IF m <= 2 THEN 1 ELSE 0)
    IN  [year |-> y, month |-> m, day |-> d]

\* new Date().toISOString(): "YYYY-MM-DDTHH:MM:SS.mmmZ", one character per
\* element; sec is the clock in whole seconds, ms the milliseconds within it.
ToISOString(sec, ms) ==
    LET date == CivilFromDays(sec \div 86400)
        sod  == sec % 86400
    IN  Pad(date.year, 4) \o <<"-">> \o Pad(date.month, 2) \o <<"-">>
          \o Pad(date.day, 2) \o <<"T">> \o Pad(sod \div 3600, 2) \o <<":">>
          \o Pad((sod % 3600) \div 60, 2) \o <<":">> \o Pad(sod % 60, 2)
          \o <<".">> \o Pad(ms, 3) \o <<"Z">>

\* .replace(/[-:.TZ]/g, '')
RECURSIVE StripSeparators(_)
StripSeparators(s) ==
    IF s = <<>> THEN <<>>
    ELSE IF Head(s) \in {"-", ":", ".", "T", "Z"} THEN StripSeparators(Tail(s))
    ELSE <<Head(s)>> \o StripSeparators(Tail(s))

\* .slice(0, 14)
\* mutant: .slice(0, 12), the seconds are cut off
Slice14_Slice12(s) == SubSeq(s, 1, IF Len(s) < 12 THEN Len(s) ELSE 12)

Slice14(s) == SubSeq(s, 1, IF Len(s) < 14 THEN Len(s) ELSE 14)

\* mutant: the timestamp is taken once, when the server starts
AllocateVersion_Frozen(sec, ms) == Slice14(StripSeparators(ToISOString(StartSec, ms)))

\* the Version Allocator: new Date().toISOString().replace(...).slice(0, 14)
AllocateVersion(sec, ms) == Slice14(StripSeparators(ToISOString(sec, ms)))

\* ------------------------------------------------- order of version text
CharIndex(c) == CHOOSE i \in 1..10 : DigitChars[i] = c

\* a > b in the store's text order (used by .gt and .order on version)
RECURSIVE TextGT(_, _)
TextGT(a, b) ==
    IF a = <<>> THEN FALSE
    ELSE IF b = <<>> THEN TRUE
    ELSE IF Head(a) = Head(b) THEN TextGT(Tail(a), Tail(b))
    ELSE CharIndex(Head(a)) > CharIndex(Head(b))

\* mutant: .order('version', {ascending: true})
RECURSIVE SortDesc_Ascending(_)
SortDesc_Ascending(S) ==
    IF S = {} THEN <<>>
    ELSE LET low == CHOOSE v \in S : \A w \in S \ {v} : TextGT(w, v)
         IN  <<low>> \o SortDesc_Ascending(S \ {low})

\* the versions in descending text order (.order('version', {ascending: false}))
RECURSIVE SortDesc(_)
SortDesc(S) ==
    IF S = {} THEN <<>>
    ELSE LET top == CHOOSE v \in S : \A w \in S \ {v} : TextGT(v, w)
         IN  <<top>> \o SortDesc(S \ {top})

\* ---------------------------------------------------------------- inputs
Names == {"add_users_table"}
UpSql == {"CREATE TABLE users"}
DownSql == {"DROP TABLE users", "DROP TABLE posts"}

\* every version the clock of the model can render
VersionPool == {AllocateVersion(t, 0) : t \in ClockRange}

\* a migration the CLI recorded in the second before the clock of the model starts
OlderVersion == AllocateVersion(StartSec - 1, 0)

\* the versions that occur as rows and as arguments
Versions == VersionPool \cup {OlderVersion}

\* what one call to the store or to the gateway can do: return a value,
\* return {error}, or reject
Outcomes == {"ok", "error", "throw"}

NoVersion == <<>>
NoSql == ""
NoName == ""

\* a version argument that is not 14 digits: a date without the time
MalformedVersion == SubSeq(OlderVersion, 1, 8)

\* what a caller may pass to the tools: the well-formed arguments, and an
\* empty name, empty SQL, a short version and the count 0
ToolNames == Names \cup {NoName}
ToolUpSql == UpSql \cup {NoSql}
ToolDownSql == DownSql \cup {NoSql}
ToolVersions == Versions \cup {MalformedVersion}
ToolCounts == 0..MaxCount

\* ----------------------------------------------------------------- state
VARIABLES
    now,           \* the wall clock, whole seconds since the epoch
    history,       \* rows of supabase_migrations.schema_migrations
    ledgerExists,  \* whether the table _migration_rollbacks exists
    ledger,        \* rows of _migration_rollbacks
    issued,        \* the version the latest creation call returned and the second it was allocated in
    last,          \* the engine call whose response is being returned: arguments, ToolResponse, store and gateway traffic
    calls,         \* per concurrent caller, the rollback call it has in flight and how far that call has got
    health,        \* the verify_setup call being answered: what each check met, and the ToolResponse
    platform       \* the Coolify applications, and the deployment tool call in flight with the requests it has sent

\* the state of the migration engine with one caller at a time
engineVars == <<now, history, ledgerExists, ledger, issued, last>>

\* what the one-caller-at-a-time steps leave alone
sideVars == <<calls, health, platform>>

vars == <<now, history, ledgerExists, ledger, issued, last, calls, health, platform>>

HistoryVersions(h) == {r.version : r \in h}
LedgerVersions(l) == {r.version : r \in l}

\* ---------------------------------------------------------- ToolResponse
\* {success, data?, error?}: data is a sequence (empty when absent), error
\* the text the response starts with, cause the failure it reports
Response(success, data, error, cause) ==
    [success |-> success, data |-> data, error |-> error, cause |-> cause]

\* mutant: the failure response carries no error text
handleError_NoErrorText(message, cause) == Response(FALSE, <<>>, "", cause)

\* handleError(error, message): {success: false, error: message + ": " + ...}
handleError(message, cause) == Response(FALSE, <<>>, message, cause)

\* ------------------------------------------------------------- validation
\* z.string().regex(/^\d{14}$/)
versionSchema(v) == Len(v) = 14 /\ \A i \in DOMAIN v : \E k \in 1..10 : DigitChars[k] = v[i]

\* z.string().min(1).max(100); a name is the empty text or a text of
\* admissible length
nameSchema(n) == n # NoName

\* z.string().min(1)
sqlSchema(sql) == sql # NoSql

\* z.number().int().min(1).max(100)
countSchema(c) == c >= 1 /\ c <= 100

deployMigrationSchema(sql, name) == sqlSchema(sql) /\ nameSchema(name)

createMigrationWithRollbackSchema(name, upSql, downSql) ==
    nameSchema(name) /\ sqlSchema(upSql) /\ sqlSchema(downSql)

\* the catch of the CallTool handler: an exception of the tool handler
\* becomes {success: false, error: message}
ToolError(message, cause) == Response(FALSE, <<>>, message, cause)

MigrationRec(version, name, status) ==
    [version |-> version, name |-> name, status |-> status]

\* ---------------------------------------------------------------- traffic
\* one request of the engine to a collaborator, with what came back.
\* to: "history" and "ledger" are the two tables, "exec", "exec_sql" and
\* "admin_query" the endpoints of the Execution Gateway; text is the SQL
\* submitted to an endpoint, version the version the request names.
Request(to, op, text, version, outcome) ==
    [to |-> to, op |-> op, text |-> text, version |-> version, outcome |-> outcome]

Apply(rpc, text, outcome) == Request(rpc, "apply", text, NoVersion, outcome)

GatewayEndpoints == {"exec", "exec_sql", "admin_query"}

\* what a handler leaves behind: its response, the stores, and the traffic
Outcome(res, h, l, le, traffic) ==
    [res |-> res, history |-> h, ledger |-> l, ledgerExists |-> le, traffic |-> traffic]

\* validateInput(schema, args) in a tool handler: when the schema rejects
\* the arguments it throws before the engine is called, else the engine
\* call goes ahead
validateInput(valid, h, l, le, engine) ==
    IF valid THEN engine
    ELSE Outcome(ToolError("Validation failed", "ValidationError"), h, l, le, <<>>)

\* --------------------------------------------------------------- queries
\* mutant: the list is cut after the newest row
listMigrations_NewestOnly(h, oSelect) ==
    IF oSelect # "ok"
    THEN handleError("Failed to list migrations", "StoreError")
    ELSE LET order == SortDesc(HistoryVersions(h))
             NameOf(v) == (CHOOSE r \in h : r.version = v).name
         IN  Response(TRUE,
                      [i \in 1..(IF Len(order) = 0 THEN 0 ELSE 1) |->
                          MigrationRec(order[i], NameOf(order[i]), "applied")],
                      "", "")

\* listMigrations(): select * order by version desc, each row mapped to a
\* Migration with the constant status 'applied'
listMigrations(h, oSelect) ==
    IF oSelect # "ok"
    THEN handleError("Failed to list migrations", "StoreError")
    ELSE LET order == SortDesc(HistoryVersions(h))
             NameOf(v) == (CHOOSE r \in h : r.version = v).name
         IN  Response(TRUE,
                      [i \in 1..Len(order) |->
                          MigrationRec(order[i], NameOf(order[i]), "applied")],
                      "", "")

\* mutant: the status is taken from the row, which carries none
getMigrationStatus_StatusOfRow(h, version, oSelect) ==
    IF oSelect # "ok"
    THEN handleError("Failed to get migration status", "StoreError")
    ELSE IF version \notin HistoryVersions(h)
    THEN handleError("Failed to get migration status", "NotFound")
    ELSE LET row == CHOOSE r \in h : r.version = version
         IN  Response(TRUE, <<MigrationRec(row.version, row.name, "pending")>>, "", "")

\* getMigrationStatus(version): select * where version = v, .single();
\* .single() reports an error when no row matches
getMigrationStatus(h, version, oSelect) ==
    IF oSelect # "ok"
    THEN handleError("Failed to get migration status", "StoreError")
    ELSE IF version \notin HistoryVersions(h)
    THEN handleError("Failed to get migration status", "NotFound")
    ELSE LET row == CHOOSE r \in h : r.version = version
         IN  Response(TRUE, <<MigrationRec(row.version, row.name, "applied")>>, "", "")

\* -------------------------------------------------------------- executeSQL
\* executeSQL(sql): rpc exec; an {error} or a rejection becomes
\* {success: false}, nothing is thrown to the caller
executeSQL(oExec) == oExec = "ok"

\* ---------------------------------------------------------------- creation
\* deployMigration(sql, name), version being the text allocated on entry.
\* rpc exec applies sql; on {error} the admin endpoint is tried, and when
\* that rejects too the response is a failure carrying a pending Migration.
\* No statement of the method writes supabase_migrations.schema_migrations.
deployMigration(h, l, le, sql, name, version, oExec, oAdmin) ==
    LET viaExec == <<Apply("exec", sql, oExec)>>
        viaBoth == viaExec \o <<Apply("admin_query", sql, oAdmin)>>
    IN  IF oExec = "throw"
        THEN Outcome(handleError("Failed to deploy migration", "ExecutionError"),
                     h, l, le, viaExec)
        ELSE IF oExec = "error" /\ oAdmin # "ok"
        THEN Outcome(Response(FALSE, <<MigrationRec(version, name, "pending")>>,
                              "Migration created but SQL execution failed",
                              "ExecutionError"),
                     h, l, le, viaBoth)
        ELSE Outcome(Response(TRUE, <<MigrationRec(version, name, "applied")>>, "", ""),
                     h, l, le, IF oExec = "ok" THEN viaExec ELSE viaBoth)

\* insert into _migration_rollbacks: fails when the table is missing or
\* the primary key version is taken, otherwise as the store decides
LedgerInsert(l, le, version, o) ==
    IF o # "throw" /\ (~le \/ version \in LedgerVersions(l)) THEN "error" ELSE o

\* mutant: deployResult.success is not looked at
createMigrationWithRollback_IgnoresDeployFailure(h, l, le, name, upSql, downSql, version, deployVersion, oExec, oAdmin, oInsert, oProvision, oRetry) ==
    LET deployed == deployMigration(h, l, le, upSql, name, deployVersion, oExec, oAdmin)
        row      == [version |-> version, name |-> name, down_sql |-> downSql]
        first    == LedgerInsert(l, le, version, oInsert)
        tried    == deployed.traffic
                      \o <<Request("ledger", "insert", downSql, version, first)>>
    IN  Outcome(Response(first = "ok", deployed.res.data, "", ""),
                h, IF first = "ok" THEN l \cup {row} ELSE l, le, tried)

\* mutant: the insert is tried again before the table is provisioned
createMigrationWithRollback_RetryFirst(h, l, le, name, upSql, downSql, version, deployVersion, oExec, oAdmin, oInsert, oProvision, oRetry) ==
    LET deployed == deployMigration(h, l, le, upSql, name, deployVersion, oExec, oAdmin)
        row      == [version |-> version, name |-> name, down_sql |-> downSql]
        first    == LedgerInsert(l, le, version, oInsert)
        le2      == le \/ executeSQL(oProvision)
        second   == LedgerInsert(l, le, version, oRetry)
        tried    == deployed.traffic
                      \o <<Request("ledger", "insert", downSql, version, first)>>
        retried  == tried
                      \o <<Request("ledger", "insert", downSql, version, second),
                           Apply("exec", "CREATE TABLE IF NOT EXISTS _migration_rollbacks",
                                 oProvision)>>
        thrown   == handleError("Failed to create migration with rollback", "StoreError")
        done     == Response(TRUE, deployed.res.data, "", "")
    IN  IF ~deployed.res.success THEN deployed
        ELSE IF first = "throw" THEN Outcome(thrown, h, l, le, tried)
        ELSE IF first = "ok" THEN Outcome(done, h, l \cup {row}, le, tried)
        ELSE IF second = "throw" THEN Outcome(thrown, h, l, le, retried)
        ELSE Outcome(done, h, IF second = "ok" THEN l \cup {row} ELSE l, le2, retried)

\* createMigrationWithRollback(name, upSql, downSql): version is allocated
\* by this method, deployVersion by the deployMigration it delegates to.
createMigrationWithRollback(h, l, le, name, upSql, downSql, version, deployVersion, oExec, oAdmin, oInsert, oProvision, oRetry) ==
    LET deployed == deployMigration(h, l, le, upSql, name, deployVersion, oExec, oAdmin)
        row      == [version |-> version, name |-> name, down_sql |-> downSql]
        first    == LedgerInsert(l, le, version, oInsert)
        le2      == le \/ executeSQL(oProvision)
        second   == LedgerInsert(l, le2, version, oRetry)
        tried    == deployed.traffic
                      \o <<Request("ledger", "insert", downSql, version, first)>>
        retried  == tried
                      \o <<Apply("exec", "CREATE TABLE IF NOT EXISTS _migration_rollbacks",
                                 oProvision),
                           Request("ledger", "insert", downSql, version, second)>>
        thrown   == handleError("Failed to create migration with rollback", "StoreError")
        done     == Response(TRUE, deployed.res.data, "", "")
    IN  IF ~deployed.res.success THEN deployed
        ELSE IF first = "throw" THEN Outcome(thrown, h, l, le, tried)
        ELSE IF first = "ok" THEN Outcome(done, h, l \cup {row}, le, tried)
        ELSE IF second = "throw" THEN Outcome(thrown, h, l, le2, retried)
        ELSE Outcome(done, h, IF second = "ok" THEN l \cup {row} ELSE l, le2, retried)

\* ---------------------------------------------------------------- rollback
\* delete().eq('version', version) on the History Store
DeleteRow(h, version) == {r \in h : r.version # version}

\* mutant: the result of executeSQL(downSql) is not looked at
DownSqlFails_OnlyThrow(downSql, oExecSql, oExec) ==
    downSql # NoSql /\ oExecSql = "throw"

\* if (downSql) { rpc exec_sql; on {error} executeSQL, and
\* if (!rawResult.success) throw }: whether the rollback is abandoned
DownSqlFails(downSql, oExecSql, oExec) ==
    /\ downSql # NoSql
    /\ \/ oExecSql = "throw"
       \/ oExecSql = "error" /\ ~executeSQL(oExec)

DownSqlTraffic(downSql, oExecSql, oExec) ==
    IF downSql = NoSql THEN <<>>
    ELSE <<Apply("exec_sql", downSql, oExecSql)>>
           \o (IF oExecSql = "error" THEN <<Apply("exec", downSql, oExec)>> ELSE <<>>)

\* the delete of the row and, on {error}, the DELETE statement handed to
\* executeSQL: whether the row is gone afterwards
RowRemoved(oDelete, oAlt) ==
    \/ oDelete = "ok"
    \/ oDelete = "error" /\ executeSQL(oAlt)

\* mutant: the DELETE statement is handed to executeSQL whatever the
\* delete returned
DeleteTraffic_AlwaysSql(version, oDelete, oAlt) ==
    <<Request("history", "delete", "", version, oDelete),
      Request("exec", "apply",
              "DELETE FROM supabase_migrations.schema_migrations WHERE version =",
              version, oAlt)>>

DeleteTraffic(version, oDelete, oAlt) ==
    <<Request("history", "delete", "", version, oDelete)>>
      \o (IF oDelete = "error"
          THEN <<Request("exec", "apply",
                         "DELETE FROM supabase_migrations.schema_migrations WHERE version =",
                         version, oAlt)>>
          ELSE <<>>)

\* mutant: the rollback also deletes the version's Rollback Ledger row
rollbackMigration_DropsLedgerRow(h, l, le, version, downSql, oExecSql, oExec, oDelete, oAlt) ==
    LET message == "Failed to rollback migration"
        down    == DownSqlTraffic(downSql, oExecSql, oExec)
    IN  IF DownSqlFails(downSql, oExecSql, oExec)
        THEN Outcome(handleError(message, "ExecutionError"), h, l, le, down)
        ELSE IF oDelete = "throw"
        THEN Outcome(handleError(message, "StoreError"), h, l, le,
                     down \o DeleteTraffic(version, oDelete, oAlt))
        ELSE Outcome(Response(TRUE, <<>>, "", ""),
                     IF RowRemoved(oDelete, oAlt) THEN DeleteRow(h, version) ELSE h,
                     {r \in l : r.version # version}, le,
                     down \o DeleteTraffic(version, oDelete, oAlt))

\* rollbackMigration(version, downSql?): the down SQL first, when given;
\* then the History Store row is deleted; the result of the DELETE handed
\* to executeSQL is not looked at.
rollbackMigration(h, l, le, version, downSql, oExecSql, oExec, oDelete, oAlt) ==
    LET message == "Failed to rollback migration"
        down    == DownSqlTraffic(downSql, oExecSql, oExec)
    IN  IF DownSqlFails(downSql, oExecSql, oExec)
        THEN Outcome(handleError(message, "ExecutionError"), h, l, le, down)
        ELSE IF oDelete = "throw"
        THEN Outcome(handleError(message, "StoreError"), h, l, le,
                     down \o DeleteTraffic(version, oDelete, oAlt))
        ELSE Outcome(Response(TRUE, <<>>, "", ""),
                     IF RowRemoved(oDelete, oAlt) THEN DeleteRow(h, version) ELSE h,
                     l, le, down \o DeleteTraffic(version, oDelete, oAlt))

\* rollbackMigrationWithDownSql(version): select down_sql ... .single() on
\* the ledger; any {error} (no row, no table, store failure) gives the
\* "No rollback SQL found" response, else rollbackMigration runs the row's
\* down_sql
rollbackMigrationWithDownSql(h, l, le, version, oFetch, oExecSql, oExec, oDelete, oAlt) ==
    LET found == le /\ version \in LedgerVersions(l)
        fetch == <<Request("ledger", "select", "", version,
                           IF oFetch = "ok" /\ ~found THEN "error" ELSE oFetch)>>
        run   == rollbackMigration(h, l, le, version,
                                   (CHOOSE r \in l : r.version = version).down_sql,
                                   oExecSql, oExec, oDelete, oAlt)
    IN  IF oFetch = "throw"
        THEN Outcome(handleError("Failed to rollback migration", "StoreError"),
                     h, l, le, fetch)
        ELSE IF oFetch = "error" \/ ~found
        THEN Outcome(Response(FALSE, <<>>, "No rollback SQL found",
                              IF oFetch = "ok" THEN "NoRollbackDataFound" ELSE "StoreError"),
                     h, l, le, fetch)
        ELSE [run EXCEPT !.traffic = fetch \o run.traffic]

\* if (!deleteError) rolledBackVersions.push(migration.version)
Pushed(outcome) == outcome = "ok"

\* the for-loop of the bulk strategies over the selected versions, from
\* position i on: one delete per version, in the order selected; a rejected
\* delete leaves the loop through the catch.  outcomes[i] is the outcome of
\* the delete of selected[i].
RECURSIVE DeleteLoop(_, _, _, _, _, _)
DeleteLoop(h, selected, outcomes, i, rolledBack, traffic) ==
    IF i > Len(selected)
    THEN [thrown |-> FALSE, history |-> h, rolledBack |-> rolledBack, traffic |-> traffic]
    ELSE LET sent == Append(traffic,
                            Request("history", "delete", "", selected[i], outcomes[i]))
         IN  IF outcomes[i] = "throw"
             THEN [thrown |-> TRUE, history |-> h, rolledBack |-> rolledBack,
                   traffic |-> sent]
             ELSE DeleteLoop(IF outcomes[i] = "ok" THEN DeleteRow(h, selected[i]) ELSE h,
                             selected, outcomes, i + 1,
                             IF Pushed(outcomes[i]) THEN Append(rolledBack, selected[i])
                             ELSE rolledBack,
                             sent)

\* what both bulk strategies do once the select has answered
BulkRollback(h, l, le, selected, outcomes, oSelect, message) ==
    LET select == <<Request("history", "select", "", NoVersion, oSelect)>>
        loop   == DeleteLoop(h, selected, outcomes, 1, <<>>, select)
    IN  IF oSelect # "ok"
        THEN Outcome(handleError(message, "StoreError"), h, l, le, select)
        ELSE IF Len(selected) = 0
        THEN Outcome(Response(TRUE, <<>>, "", ""), h, l, le, select)
        ELSE IF loop.thrown
        THEN Outcome(handleError(message, "StoreError"), loop.history, l, le, loop.traffic)
        ELSE Outcome(Response(TRUE, loop.rolledBack, "", ""),
                     loop.history, l, le, loop.traffic)

\* mutant: .gte in place of .gt
SelectAfter_Inclusive(h, targetVersion) ==
    SortDesc({v \in HistoryVersions(h) : ~TextGT(targetVersion, v)})

\* .gt('version', targetVersion).order('version', {ascending: false})
SelectAfter(h, targetVersion) ==
    SortDesc({v \in HistoryVersions(h) : TextGT(v, targetVersion)})

\* mutant: .limit(count) is missing
SelectLast_NoLimit(h, count) == SortDesc(HistoryVersions(h))

\* .order('version', {ascending: false}).limit(count)
SelectLast(h, count) ==
    LET order == SortDesc(HistoryVersions(h))
    IN  SubSeq(order, 1, IF count < Len(order) THEN count ELSE Len(order))

\* rollbackToVersion(targetVersion)
rollbackToVersion(h, l, le, targetVersion, oSelect, outcomes) ==
    BulkRollback(h, l, le, SelectAfter(h, targetVersion), outcomes, oSelect,
                 "Failed to rollback to version")

\* rollbackLastMigrations(count)
rollbackLastMigrations(h, l, le, count, oSelect, outcomes) ==
    BulkRollback(h, l, le, SelectLast(h, count), outcomes, oSelect,
                 "Failed to rollback migrations")

\* ------------------------------------------------------------ the calls
\* an engine call as its caller and its collaborators saw it; before is
\* what the stores and issued held when the call started
ToolCall(op, name, sql, version, downSql, count, out, before) ==
    [op |-> op, name |-> name, sql |-> sql, version |-> version,
     downSql |-> downSql, count |-> count,
     res |-> out.res, traffic |-> out.traffic, before |-> before]

\* a call of a tool that takes neither name nor sql
Call(op, version, downSql, count, out, before) ==
    ToolCall(op, NoName, NoSql, version, downSql, count, out, before)

NotIssued == [version |-> NoVersion, sec |-> 0]

\* no verify_setup call is being answered
NoVerification ==
    [op |-> "idle", met |-> <<>>, res |-> [success |-> TRUE, data |-> <<>>, message |-> ""]]

\* two clients of the server with a request each in flight
Callers == {"A", "B"}

\* a caller without a call in flight.  selected is what the select of the
\* call returned, at the position of the next delete, rolledBack the
\* rolledBackVersions pushed so far; removed (the versions whose row a
\* delete of this call removed) and faulted (the store answered a request
\* of this call with an error or an exception) are kept for the properties
NoCall ==
    [pc |-> "idle", op |-> "idle", version |-> NoVersion, count |-> 0,
     selected |-> <<>>, at |-> 0, rolledBack |-> <<>>, removed |-> {},
     faulted |-> FALSE, res |-> Response(TRUE, <<>>, "", "")]

Before == [history |-> history, ledger |-> ledger, issued |-> issued]

\* no call in progress
Idle ==
    Call("idle", NoVersion, NoSql, 0,
         Outcome(Response(TRUE, <<>>, "", ""), {}, {}, FALSE, <<>>),
         [history |-> {}, ledger |-> {}, issued |-> NotIssued])

\* the version a creation response carries, if it carries a Migration
ReturnedVersion(res) == IF Len(res.data) = 0 THEN NoVersion ELSE res.data[1].version

Finish(call, out) ==
    /\ history' = out.history
    /\ ledger' = out.ledger
    /\ ledgerExists' = out.ledgerExists
    /\ last' = call
    /\ UNCHANGED sideVars

Issue(res, sec) ==
    IF Len(res.data) = 0 THEN issued
    ELSE [version |-> ReturnedVersion(res), sec |-> sec]

\* ---- the deployment tools' view of Coolify
PlatformNames == {"alpha", "beta"}

\* the uuids Coolify hands out, in the order it hands them out
Uuids == <<"app-1", "app-2">>

\* config.postgres_version; "" when the config does not give one
PostgresVersions == {"", "16"}

\* args.config left out of an update_supabase_deployment call
NoConfig == "undefined"

\* what a CoolifyClient method returns: success with data, success with an
\* empty body, or the ToolResponse of its handleError
PlatformAnswers == {"ok", "nodata", "error"}

PlatformResponse(success, data, error, message) ==
    [success |-> success, data |-> data, error |-> error, message |-> message]

PlatformRequest(op, uuid, outcome) ==
    [op |-> op, uuid |-> uuid, outcome |-> outcome]

NoRun ==
    [pc |-> "idle", op |-> "idle", name |-> "", uuid |-> "", config |-> "",
     sent |-> <<>>, res |-> PlatformResponse(TRUE, <<>>, "", "")]

Init ==
    /\ now = StartSec
    /\ history = {}
    /\ ledgerExists \in BOOLEAN
    /\ ledger = {}
    /\ issued = NotIssued
    /\ last = Idle
    /\ calls = [c \in Callers |-> NoCall]
    /\ health = NoVerification
    /\ platform = [apps |-> {}, run |-> NoRun]

\* the tool handler hands the ToolResponse to the caller; the next request
\* is taken after that
Return ==
    /\ last.op # "idle"
    /\ last' = Idle
    /\ UNCHANGED <<now, history, ledgerExists, ledger, issued>>
    /\ UNCHANGED sideVars

\* a second passes
Tick ==
    /\ last.op = "idle"
    /\ now < StartSec + MaxTicks
    /\ now' = now + 1
    /\ UNCHANGED <<history, ledgerExists, ledger, issued, last>>
    /\ UNCHANGED sideVars

\* supabase db push: the CLI applies a local migration file and records it
\* in the History Store
dbPush ==
    \E v \in Versions, n \in Names :
        /\ last.op = "idle"
        /\ v \notin HistoryVersions(history)
        /\ history' = history \cup {[version |-> v, name |-> n]}
        /\ UNCHANGED <<now, ledgerExists, ledger, issued, last>>
        /\ UNCHANGED sideVars

ListMigrations ==
    \E o \in Outcomes :
        LET out == Outcome(listMigrations(history, o), history, ledger,
                           ledgerExists,
                           <<Request("history", "select", "", NoVersion, o)>>)
        IN  /\ last.op = "idle"
            /\ Finish(Call("listMigrations", NoVersion, NoSql, 0, out, Before), out)
            /\ UNCHANGED <<now, issued>>

GetMigrationStatus ==
    \E v \in ToolVersions, o \in Outcomes :
        LET out == Outcome(getMigrationStatus(history, v, o), history, ledger,
                           ledgerExists,
                           <<Request("history", "select", "", v, o)>>)
        IN  /\ last.op = "idle"
            /\ Finish(Call("getMigrationStatus", v, NoSql, 0, out, Before), out)
            /\ UNCHANGED <<now, issued>>

DeployMigration ==
    \E sql \in ToolUpSql, name \in ToolNames :
    \E ms \in (IF deployMigrationSchema(sql, name) THEN {0, 999} ELSE {0}) :
    \E oExec \in (IF deployMigrationSchema(sql, name) THEN Outcomes ELSE {"ok"}) :
    \E oAdmin \in (IF oExec = "error" THEN Outcomes ELSE {"ok"}) :
        LET out == validateInput(deployMigrationSchema(sql, name),
                       history, ledger, ledgerExists,
                       deployMigration(history, ledger, ledgerExists, sql, name,
                                       AllocateVersion(now, ms), oExec, oAdmin))
        IN  /\ last.op = "idle"
            /\ Finish(ToolCall("deployMigration", name, sql, ReturnedVersion(out.res),
                               NoSql, 0, out, Before), out)
            /\ issued' = Issue(out.res, now)
            /\ UNCHANGED now

\* the clock may pass a second boundary between the allocation in
\* createMigrationWithRollback and the one in deployMigration
CreateMigrationWithRollback ==
    \E name \in ToolNames, up \in ToolUpSql, down \in ToolDownSql :
    \E d \in (IF createMigrationWithRollbackSchema(name, up, down) THEN {0, 1} ELSE {0}) :
    \E oExec \in (IF createMigrationWithRollbackSchema(name, up, down)
                  THEN Outcomes ELSE {"ok"}) :
    \E oAdmin \in (IF oExec = "error" THEN Outcomes ELSE {"ok"}) :
    \E oInsert \in (IF oExec = "ok" \/ (oExec = "error" /\ oAdmin = "ok")
                    THEN Outcomes ELSE {"ok"}) :
    \E oProvision \in (IF oInsert = "ok" THEN {"ok"} ELSE Outcomes) :
    \E oRetry \in (IF oInsert = "ok" THEN {"ok"} ELSE Outcomes) :
        /\ last.op = "idle"
        /\ now + d <= StartSec + MaxTicks
        /\ LET out == validateInput(createMigrationWithRollbackSchema(name, up, down),
                          history, ledger, ledgerExists,
                          createMigrationWithRollback(history, ledger, ledgerExists,
                              name, up, down,
                              AllocateVersion(now, IF d = 1 THEN 999 ELSE 0),
                              AllocateVersion(now + d, 0),
                              oExec, oAdmin, oInsert, oProvision, oRetry))
           IN  /\ Finish(ToolCall("createMigrationWithRollback", name, up,
                                  ReturnedVersion(out.res), down, 0, out, Before), out)
               /\ issued' = Issue(out.res, now + d)
               /\ now' = now + d

RollbackMigration ==
    \E v \in ToolVersions, down \in DownSql \cup {NoSql} :
    \E oExecSql \in (IF down = NoSql THEN {"ok"} ELSE Outcomes) :
    \E oExec \in (IF oExecSql = "error" THEN Outcomes ELSE {"ok"}) :
    \E oDelete \in Outcomes :
    \E oAlt \in (IF oDelete = "error" THEN Outcomes ELSE {"ok"}) :
        LET out == rollbackMigration(history, ledger, ledgerExists, v, down,
                                     oExecSql, oExec, oDelete, oAlt)
        IN  /\ last.op = "idle"
            /\ Finish(Call("rollbackMigration", v, down, 0, out, Before), out)
            /\ UNCHANGED <<now, issued>>

RollbackMigrationWithDownSql ==
    \E v \in ToolVersions, oFetch \in Outcomes :
    \E oExecSql \in (IF oFetch = "ok" THEN Outcomes ELSE {"ok"}) :
    \E oExec \in (IF oExecSql = "error" THEN Outcomes ELSE {"ok"}) :
    \E oDelete \in (IF oFetch = "ok" THEN Outcomes ELSE {"ok"}) :
    \E oAlt \in (IF oDelete = "error" THEN Outcomes ELSE {"ok"}) :
        LET out == rollbackMigrationWithDownSql(history, ledger, ledgerExists, v,
                                                oFetch, oExecSql, oExec, oDelete, oAlt)
        IN  /\ last.op = "idle"
            /\ Finish(Call("rollbackMigrationWithDownSql", v, NoSql, 0, out, Before), out)
            /\ UNCHANGED <<now, issued>>

RollbackToVersion ==
    \E target \in ToolVersions, oSelect \in Outcomes :
    \E outcomes \in [1..(IF oSelect = "ok" THEN Len(SelectAfter(history, target)) ELSE 0)
                     -> Outcomes] :
        LET out == rollbackToVersion(history, ledger, ledgerExists, target,
                                     oSelect, outcomes)
        IN  /\ last.op = "idle"
            /\ Finish(Call("rollbackToVersion", target, NoSql, 0, out, Before), out)
            /\ UNCHANGED <<now, issued>>

RollbackLastMigrations ==
    \E count \in ToolCounts, oSelect \in Outcomes :
    \E outcomes \in [1..(IF oSelect = "ok" THEN Len(SelectLast(history, count)) ELSE 0)
                     -> Outcomes] :
        LET out == rollbackLastMigrations(history, ledger, ledgerExists, count,
                                          oSelect, outcomes)
        IN  /\ last.op = "idle"
            /\ Finish(Call("rollbackLastMigrations", NoVersion, NoSql, count, out, Before), out)
            /\ UNCHANGED <<now, issued>>

Next ==
    \/ Return
    \/ Tick
    \/ dbPush
    \/ ListMigrations
    \/ GetMigrationStatus
    \/ DeployMigration
    \/ CreateMigrationWithRollback
    \/ RollbackMigration
    \/ RollbackMigrationWithDownSql
    \/ RollbackToVersion
    \/ RollbackLastMigrations

Spec == Init /\ [][Next]_vars

\* ----------------------------------------------------- concurrent callers
\* Two callers run rollbacks at the same time.  Each await of a handler is
\* a step of its own: the select, then one delete per selected version;
\* the steps of the two calls interleave freely.

BulkMessage(op) ==
    IF op = "rollbackToVersion" THEN "Failed to rollback to version"
    ELSE "Failed to rollback migrations"

\* mutant: a delete that matches no row is rejected by the store
DeleteAnswer_MissingRowThrows(h, version, o) ==
    IF version \notin HistoryVersions(h) THEN "throw" ELSE o

\* delete().eq('version', v): what the store answers; a delete that
\* matches no row is answered like one that matched
DeleteAnswer(h, version, o) == o

\* the select of a bulk rollback has answered
Selected(call, selected, oSelect) ==
    IF oSelect # "ok"
    THEN [call EXCEPT !.pc = "done", !.faulted = TRUE,
                      !.res = handleError(BulkMessage(call.op), "StoreError")]
    ELSE IF Len(selected) = 0
    THEN [call EXCEPT !.pc = "done", !.res = Response(TRUE, <<>>, "", "")]
    ELSE [call EXCEPT !.pc = "deleting", !.selected = selected, !.at = 1]

\* one turn of the for-loop of a bulk rollback: the delete of
\* selected[at], the push when it reported no error, and the return after
\* the last turn; a rejected delete leaves through the catch
DeleteTurn(h, call, o) ==
    LET v      == call.selected[call.at]
        answer == DeleteAnswer(h, v, o)
        h2     == IF answer = "ok" THEN DeleteRow(h, v) ELSE h
        pushed == IF Pushed(answer) THEN Append(call.rolledBack, v) ELSE call.rolledBack
        seen   == [call EXCEPT !.faulted = @ \/ o # "ok"]
        isLast == call.at = Len(call.selected)
    IN  IF answer = "throw"
        THEN [history |-> h,
              call |-> [seen EXCEPT !.pc = "done",
                                    !.res = handleError(BulkMessage(call.op), "StoreError")]]
        ELSE [history |-> h2,
              call |-> [seen EXCEPT !.at = @ + 1,
                                    !.rolledBack = pushed,
                                    !.removed = IF h2 # h THEN @ \cup {v} ELSE @,
                                    !.pc = IF isLast THEN "done" ELSE "deleting",
                                    !.res = IF isLast THEN Response(TRUE, pushed, "", "")
                                            ELSE @]]

raceFrame == <<now, ledgerExists, ledger, issued, last, health, platform>>

\* rollbackToVersion(target) arrives and its select is answered
RaceSelectAfter(c) ==
    \E target \in Versions, oSelect \in Outcomes :
        /\ calls[c].pc = "idle"
        /\ calls' = [calls EXCEPT ![c] =
                        Selected([NoCall EXCEPT !.op = "rollbackToVersion",
                                                !.version = target],
                                 SelectAfter(history, target), oSelect)]
        /\ UNCHANGED history
        /\ UNCHANGED raceFrame

\* rollbackLastMigrations(count) arrives and its select is answered
RaceSelectLast(c) ==
    \E count \in 1..MaxCount, oSelect \in Outcomes :
        /\ calls[c].pc = "idle"
        /\ calls' = [calls EXCEPT ![c] =
                        Selected([NoCall EXCEPT !.op = "rollbackLastMigrations",
                                                !.count = count],
                                 SelectLast(history, count), oSelect)]
        /\ UNCHANGED history
        /\ UNCHANGED raceFrame

\* the next delete of a bulk rollback in flight
RaceDelete(c) ==
    \E o \in Outcomes :
        LET turn == DeleteTurn(history, calls[c], o)
        IN  /\ calls[c].pc = "deleting"
            /\ history' = turn.history
            /\ calls' = [calls EXCEPT ![c] = turn.call]
            /\ UNCHANGED raceFrame

\* rollbackMigration(v) without down SQL: its delete is its only request
\* to the History Store
RaceRollbackMigration(c) ==
    \E v \in Versions, oDelete \in Outcomes :
    \E oAlt \in (IF oDelete = "error" THEN Outcomes ELSE {"ok"}) :
        LET out == rollbackMigration(history, ledger, ledgerExists, v, NoSql, "ok", "ok",
                                     DeleteAnswer(history, v, oDelete), oAlt)
        IN  /\ calls[c].pc = "idle"
            /\ history' = out.history
            /\ calls' = [calls EXCEPT ![c] =
                            [NoCall EXCEPT !.pc = "done", !.op = "rollbackMigration",
                                           !.version = v, !.selected = <<v>>,
                                           !.removed = IF out.history # history
                                                       THEN {v} ELSE {},
                                           !.faulted = oDelete # "ok",
                                           !.res = out.res]]
            /\ UNCHANGED raceFrame

\* the response reaches the caller
RaceReturn(c) ==
    /\ calls[c].pc = "done"
    /\ calls' = [calls EXCEPT ![c] = NoCall]
    /\ UNCHANGED history
    /\ UNCHANGED raceFrame

\* rows are recorded while no rollback is in flight
RacePush ==
    /\ \A c \in Callers : calls[c].pc = "idle"
    /\ dbPush

RaceNext ==
    \/ RacePush
    \/ \E c \in Callers : RaceSelectAfter(c)
    \/ \E c \in Callers : RaceSelectLast(c)
    \/ \E c \in Callers : RaceDelete(c)
    \/ \E c \in Callers : RaceRollbackMigration(c)
    \/ \E c \in Callers : RaceReturn(c)

SpecRace == Init /\ [][RaceNext]_vars

\* ------------------------------------------------------------ verify_setup
\* what the request a check makes can meet: success; a failure whose error
\* text names 401, Unauthorized or JWT; another failure; an exception; and
\* "reject": the promise of the check itself is rejected
Met == {"ok", "unauthorized", "error", "throw", "reject"}

\* checkCoolifyConnection, checkSupabaseConnection
ConnectionStatus(met) == IF met = "ok" THEN "healthy" ELSE "unhealthy"

\* checkCoolifyAuth, checkSupabaseAuth
AuthStatus(met) ==
    IF met = "ok" THEN "healthy"
    ELSE IF met = "error" THEN "warning"
    ELSE "unhealthy"

\* checkSupabaseDatabase, checkSupabaseCLI
OptionalStatus(met) == IF met = "ok" THEN "healthy" ELSE "warning"

\* the six checks in the order of the Promise.allSettled array
CheckKinds == <<"connection", "auth", "connection", "auth", "optional", "optional">>

\* results.forEach: the value of a fulfilled check, unhealthy for a
\* rejected one
Settled(kind, met) ==
    IF met = "reject" THEN "unhealthy"
    ELSE IF kind = "connection" THEN ConnectionStatus(met)
    ELSE IF kind = "auth" THEN AuthStatus(met)
    ELSE OptionalStatus(met)

\* checks.filter(c => c.status === status).length
CountOf(checks, status) == Cardinality({i \in DOMAIN checks : checks[i] = status})

\* mutant: the warnings are looked at before the unhealthy checks
OverallStatus_WarningsFirst(summary) ==
    IF summary.warnings > 0 THEN "degraded"
    ELSE IF summary.unhealthy > 0 THEN "unhealthy"
    ELSE "healthy"

OverallStatus(summary) ==
    IF summary.unhealthy > 0 THEN "unhealthy"
    ELSE IF summary.warnings > 0 THEN "degraded"
    ELSE "healthy"

\* HealthChecker.checkAll(): the SystemHealthReport
checkAll(met) ==
    LET checks  == [i \in DOMAIN CheckKinds |-> Settled(CheckKinds[i], met[i])]
        summary == [total |-> Len(checks),
                    healthy |-> CountOf(checks, "healthy"),
                    unhealthy |-> CountOf(checks, "unhealthy"),
                    warnings |-> CountOf(checks, "warning")]
    IN  [overall_status |-> OverallStatus(summary), checks |-> checks, summary |-> summary]

\* createVerificationReport(): {success, data: report, message}
createVerificationReport(met) ==
    LET report == checkAll(met)
    IN  [success |-> report.overall_status # "unhealthy",
         data |-> <<report>>,
         message |-> IF report.overall_status = "healthy" THEN "All systems operational"
                     ELSE IF report.overall_status = "degraded"
                     THEN "Some services have warnings"
                     ELSE "Critical services are unavailable"]

verifyFrame == <<now, history, ledgerExists, ledger, issued, last, calls, platform>>

\* the verify_setup tool
VerifySetup ==
    \E met \in [DOMAIN CheckKinds -> Met] :
        /\ health.op = "idle"
        /\ health' = [op |-> "verify_setup", met |-> met,
                      res |-> createVerificationReport(met)]
        /\ UNCHANGED verifyFrame

VerifyReturn ==
    /\ health.op # "idle"
    /\ health' = NoVerification
    /\ UNCHANGED verifyFrame

VerifyNext == VerifySetup \/ VerifyReturn

SpecVerify == Init /\ [][VerifyNext]_vars

\* ------------------------------------------------------ deployment tools
\* Each await of a handler is one step; platform.run.pc is the request the
\* handler is about to send.
deployFrame == <<now, history, ledgerExists, ledger, issued, last, calls, health>>

AppUuids(apps) == {a.uuid : a \in apps}

NextUuid(apps) == Uuids[Cardinality(apps) + 1]

App(uuid, name) ==
    [uuid |-> uuid, name |-> name, env |-> "", deployed |-> FALSE, restarted |-> FALSE]

\* the four generated secrets the handler returns
Credentials == {"postgres_password", "jwt_secret", "anon_key", "service_role_key"}

Sent(run, op, uuid, o) ==
    [run EXCEPT !.sent = Append(@, PlatformRequest(op, uuid, o))]

\* return { success: false, error }
Stop(run, error) ==
    [run EXCEPT !.pc = "done", !.res = PlatformResponse(FALSE, <<>>, error, "")]

\* if (!appResult.success || !appResult.data) return ...; appUuid = appResult.data.uuid
AfterCreate(run, o, uuid) ==
    IF o # "ok" THEN Stop(run, "Failed to create Supabase application")
    ELSE [run EXCEPT !.pc = "env", !.uuid = uuid]

\* mutant: the environment result is not looked at
AfterEnv_IgnoresFailure(run, o) ==
    [run EXCEPT !.pc = "deploy"]

\* if (!envResult.success) return ...
AfterEnv(run, o) ==
    IF o # "ok" THEN Stop(run, "Failed to configure environment variables")
    ELSE [run EXCEPT !.pc = "deploy"]

\* if (!deployResult.success) return ...; return { success: true, data, message }
AfterDeploy(run, o) ==
    IF o # "ok" THEN Stop(run, "Failed to deploy Supabase")
    ELSE [run EXCEPT !.pc = "done",
                     !.res = PlatformResponse(TRUE,
                                 <<[uuid |-> run.uuid, name |-> run.name,
                                    status |-> "deploying",
                                    credentials |-> Credentials]>>,
                                 "",
                                 "Supabase deployment started successfully. Save the credentials securely!")]

\* if (!appResult.success || !appResult.data) return ...
AfterGet(run, o) ==
    IF o # "ok" THEN Stop(run, "Application not found")
    ELSE [run EXCEPT !.pc = "env"]

AfterUpdateEnv(run, o) ==
    IF o # "ok" THEN Stop(run, "Failed to update configuration")
    ELSE [run EXCEPT !.pc = "restart"]

AfterRestart(run, o) ==
    IF o # "ok" THEN Stop(run, "Failed to restart application")
    ELSE [run EXCEPT !.pc = "done",
                     !.res = PlatformResponse(TRUE, <<>>, "",
                                 "Supabase deployment updated successfully")]

\* Coolify applies a request it answers with success
Configure(apps, uuid, version) ==
    {IF a.uuid = uuid THEN [a EXCEPT !.env = version] ELSE a : a \in apps}

Started(apps, uuid) ==
    {IF a.uuid = uuid THEN [a EXCEPT !.deployed = TRUE] ELSE a : a \in apps}

Restarted(apps, uuid) ==
    {IF a.uuid = uuid THEN [a EXCEPT !.restarted = TRUE] ELSE a : a \in apps}

\* POSTGRES_VERSION: config.postgres_version || '15'
DeployEnvVersion(config) == IF config = "" THEN "15" ELSE config

\* updatedEnv = {...currentEnv}; if (config.postgres_version) updatedEnv.POSTGRES_VERSION = ...
UpdateEnvVersion(apps, uuid, config) ==
    IF config = "" THEN (CHOOSE a \in apps : a.uuid = uuid).env ELSE config

DeployStart ==
    \E name \in PlatformNames, config \in PostgresVersions :
        /\ platform.run.pc = "idle"
        /\ platform' = [platform EXCEPT !.run =
               [NoRun EXCEPT !.pc = "create", !.op = "deploy_supabase_to_coolify",
                             !.name = name, !.config = config]]
        /\ UNCHANGED deployFrame

\* coolify.createApplication
DeployCreate ==
    \E o \in PlatformAnswers :
        /\ platform.run.op = "deploy_supabase_to_coolify"
        /\ platform.run.pc = "create"
        /\ o # "error" => Cardinality(platform.apps) < Len(Uuids)
        /\ LET uuid == IF o = "error" THEN "" ELSE NextUuid(platform.apps)
           IN  platform' =
                 [apps |-> IF o = "error" THEN platform.apps
                           ELSE platform.apps \cup {App(uuid, platform.run.name)},
                  run |-> AfterCreate(Sent(platform.run, "createApplication", "", o), o, uuid)]
        /\ UNCHANGED deployFrame

\* the secrets are generated, then coolify.updateApplicationEnv; "throw" is
\* crypto.getRandomValues failing where the runtime has no global crypto
DeployEnv ==
    \E o \in {"ok", "error", "throw"} :
        /\ platform.run.op = "deploy_supabase_to_coolify"
        /\ platform.run.pc = "env"
        /\ platform' =
             IF o = "throw"
             THEN [platform EXCEPT !.run = Stop(@, "Deployment failed")]
             ELSE [apps |-> IF o = "ok"
                            THEN Configure(platform.apps, platform.run.uuid,
                                           DeployEnvVersion(platform.run.config))
                            ELSE platform.apps,
                   run |-> AfterEnv(Sent(platform.run, "updateApplicationEnv",
                                         platform.run.uuid, o), o)]
        /\ UNCHANGED deployFrame

\* coolify.deployApplication
DeployDeploy ==
    \E o \in {"ok", "error"} :
        /\ platform.run.op = "deploy_supabase_to_coolify"
        /\ platform.run.pc = "deploy"
        /\ platform' =
             [apps |-> IF o = "ok" THEN Started(platform.apps, platform.run.uuid)
                       ELSE platform.apps,
              run |-> AfterDeploy(Sent(platform.run, "deployApplication",
                                       platform.run.uuid, o), o)]
        /\ UNCHANGED deployFrame

UpdateStart ==
    \E i \in DOMAIN Uuids, config \in PostgresVersions \cup {NoConfig} :
        /\ platform.run.pc = "idle"
        /\ platform' = [platform EXCEPT !.run =
               [NoRun EXCEPT !.pc = "get", !.op = "update_supabase_deployment",
                             !.uuid = Uuids[i], !.config = config]]
        /\ UNCHANGED deployFrame

\* coolify.getApplication; Coolify has no answer but an error for a uuid it
\* does not know
UpdateGet ==
    \E o \in PlatformAnswers :
        /\ platform.run.op = "update_supabase_deployment"
        /\ platform.run.pc = "get"
        /\ platform.run.uuid \notin AppUuids(platform.apps) => o = "error"
        /\ platform' = [platform EXCEPT !.run =
               AfterGet(Sent(@, "getApplication", @.uuid, o), o)]
        /\ UNCHANGED deployFrame

\* updatedEnv is built from config, then coolify.updateApplicationEnv; reading
\* a field of a config that was left out throws into the catch
UpdateEnv ==
    \E o \in {"ok", "error"} :
        /\ platform.run.op = "update_supabase_deployment"
        /\ platform.run.pc = "env"
        /\ platform.run.config = NoConfig => o = "ok"
        /\ platform' =
             IF platform.run.config = NoConfig
             THEN [platform EXCEPT !.run = Stop(@, "Update failed")]
             ELSE [apps |-> IF o = "ok"
                            THEN Configure(platform.apps, platform.run.uuid,
                                           UpdateEnvVersion(platform.apps, platform.run.uuid,
                                                            platform.run.config))
                            ELSE platform.apps,
                   run |-> AfterUpdateEnv(Sent(platform.run, "updateApplicationEnv",
                                               platform.run.uuid, o), o)]
        /\ UNCHANGED deployFrame

\* coolify.restartApplication
UpdateRestart ==
    \E o \in {"ok", "error"} :
        /\ platform.run.op = "update_supabase_deployment"
        /\ platform.run.pc = "restart"
        /\ platform' =
             [apps |-> IF o = "ok" THEN Restarted(platform.apps, platform.run.uuid)
                       ELSE platform.apps,
              run |-> AfterRestart(Sent(platform.run, "restartApplication",
                                        platform.run.uuid, o), o)]
        /\ UNCHANGED deployFrame

\* the handler's response goes to the caller
PlatformReturn ==
    /\ platform.run.pc = "done"
    /\ platform' = [platform EXCEPT !.run = NoRun]
    /\ UNCHANGED deployFrame

DeployNext ==
    \/ DeployStart
    \/ DeployCreate
    \/ DeployEnv
    \/ DeployDeploy
    \/ UpdateStart
    \/ UpdateGet
    \/ UpdateEnv
    \/ UpdateRestart
    \/ PlatformReturn

SpecDeploy == Init /\ [][DeployNext]_vars

\* ------------------------------------------------------------- properties
IsGateway(e) == e.to \in GatewayEndpoints

IsHistoryDelete(e) == e.to = "history" /\ e.op = "delete"

\* how often the call handed the SQL text to an endpoint of the gateway
Submissions(traffic, text) ==
    Cardinality({i \in DOMAIN traffic : IsGateway(traffic[i]) /\ traffic[i].text = text})

\* the positions of the traffic at which caller-supplied SQL was submitted
UserSqlAt(traffic) ==
    {i \in DOMAIN traffic : IsGateway(traffic[i]) /\ traffic[i].version = NoVersion}

Elements(seq) == {seq[i] : i \in DOMAIN seq}

Min(a, b) == IF a < b THEN a ELSE b

\* every request of the call was answered without error
AllAnswered(call) == \A i \in DOMAIN call.traffic : call.traffic[i].outcome = "ok"

\* getMigrationStatus(v) issued next, the store answering
StatusNow(v) == getMigrationStatus(history, v, "ok")

\* listMigrations() issued next, the store answering
ListNow == listMigrations(history, "ok")

IsCreation(call) ==
    /\ call.op \in {"deployMigration", "createMigrationWithRollback"}
    /\ Len(call.res.data) > 0

\* C1: a deployMigration whose SQL the Execution Gateway accepted returns a
\* Migration with status applied, and getMigrationStatus of the returned
\* version, called right afterwards, succeeds and reports status applied.
C1_DeployThenStatusApplied ==
    (last.op = "deployMigration" /\ last.res.success) =>
        /\ last.res.data[1].status = "applied"
        /\ StatusNow(last.version).success
        /\ StatusNow(last.version).data[1].status = "applied"

\* C2: a deployMigration whose SQL the Execution Gateway rejected returns
\* success=false with the execution error, and the version it reserved is a
\* row of the History Store that listMigrations and getMigrationStatus show.
C2_RejectedDeployRecordsPending ==
    (last.op = "deployMigration" /\ ~last.res.success /\ Len(last.res.data) > 0) =>
        /\ last.res.cause = "ExecutionError"
        /\ last.res.data[1].status = "pending"
        /\ last.version \in HistoryVersions(history)
        /\ StatusNow(last.version).success
        /\ \E m \in Elements(ListNow.data) : m.version = last.version

\* C3: whenever rollbackMigration(v) reports success, whatever the store's
\* delete did, getMigrationStatus(v) called right afterwards fails with
\* NotFound.
C3_RollbackThenStatusNotFound ==
    (last.op = "rollbackMigration" /\ last.res.success) =>
        /\ ~StatusNow(last.version).success
        /\ StatusNow(last.version).cause = "NotFound"

\* the call submitted a down payload and no endpoint applied it
DownSqlFailed(call) ==
    /\ call.op \in {"rollbackMigration", "rollbackMigrationWithDownSql"}
    /\ UserSqlAt(call.traffic) # {}
    /\ \A i \in UserSqlAt(call.traffic) : call.traffic[i].outcome # "ok"

\* C4: when the down payload of a rollback (given by the caller or read
\* from the ledger) cannot be applied, the call fails, issues no delete of
\* the History Store row, by the store or by SQL, and leaves the History
\* Store as it was.
C4_FailedDownLeavesHistory ==
    DownSqlFailed(last) =>
        /\ ~last.res.success
        /\ \A i \in DOMAIN last.traffic :
              /\ ~IsHistoryDelete(last.traffic[i])
              /\ ~(IsGateway(last.traffic[i]) /\ last.traffic[i].version # NoVersion)
        /\ history = last.before.history

C4_Witness ==
    /\ last.op = "rollbackMigrationWithDownSql"
    /\ DownSqlFailed(last)
    /\ last.version \in HistoryVersions(history)

\* rollbackMigrationWithDownSql(v) issued next, every request answered
StoredDownRollbackNow(v) ==
    rollbackMigrationWithDownSql(history, ledger, ledgerExists, v,
                                 "ok", "ok", "ok", "ok", "ok")

\* C5: after a createMigrationWithRollback that returned success with
\* version v, rollbackMigrationWithDownSql(v) called right afterwards ends
\* with v absent from the History Store and submits the stored down payload
\* to the Execution Gateway exactly once.
C5_CreateThenStoredRollback ==
    (last.op = "createMigrationWithRollback" /\ last.res.success) =>
        /\ last.version \notin HistoryVersions(StoredDownRollbackNow(last.version).history)
        /\ Submissions(StoredDownRollbackNow(last.version).traffic, last.downSql) = 1

\* C6: whenever createMigrationWithRollback returns success with version v,
\* the Rollback Ledger holds a row with version v whose down_sql is the down
\* SQL of this call.
C6_LedgerRowForReturnedVersion ==
    (last.op = "createMigrationWithRollback" /\ last.res.success) =>
        \E r \in ledger : r.version = last.version /\ r.down_sql = last.downSql

\* C7 as stated: a creation call never returns the version that the
\* creation call before it returned.
C7_VersionsNeverReused ==
    IsCreation(last) => last.version # last.before.issued.version

\* C7 as amended: a creation call that allocates in a later second than the
\* creation call before it returns a strictly greater version, whatever was
\* rolled back in between; only calls allocating in the same second return
\* the same version.
C7_DistinctAcrossSeconds ==
    (IsCreation(last) /\ last.before.issued.version # NoVersion) =>
        /\ issued.sec >= last.before.issued.sec
        /\ issued.sec > last.before.issued.sec =>
              TextGT(last.version, last.before.issued.version)
        /\ last.version = last.before.issued.version =>
              issued.sec = last.before.issued.sec

C7_Witness ==
    /\ last.op = "createMigrationWithRollback"
    /\ IsCreation(last)
    /\ last.before.issued.version # NoVersion
    /\ issued.sec > last.before.issued.sec

C9_RollbackLastN ==
    (last.op = "rollbackLastMigrations" /\ AllAnswered(last)) =>
        LET was  == HistoryVersions(last.before.history)
            gone == Elements(last.res.data)
        IN  /\ last.res.success
            /\ Len(last.res.data) = Min(last.count, Cardinality(was))
            /\ \A i, j \in DOMAIN last.res.data :
                  i < j => TextGT(last.res.data[i], last.res.data[j])
            /\ gone \subseteq was
            /\ \A v \in gone, w \in was \ gone : TextGT(v, w)
            /\ ListNow.success
            /\ Len(ListNow.data) = Cardinality(was) - Min(last.count, Cardinality(was))
            /\ {m.version : m \in Elements(ListNow.data)} = was \ gone

C9_Witness ==
    /\ last.op = "rollbackLastMigrations"
    /\ AllAnswered(last)
    /\ last.before.history # {}
    /\ Cardinality(last.before.history) < last.count
    /\ Len(last.res.data) = Cardinality(last.before.history)

\* C10: after a rollbackMigration(v) without down SQL that reported success,
\* a second rollbackMigration(v) reports success or NotFound and leaves the
\* History Store as the first call left it.
C10_RollbackTwice ==
    (last.op = "rollbackMigration" /\ last.downSql = NoSql /\ last.res.success) =>
        LET second == rollbackMigration(history, ledger, ledgerExists, last.version,
                                        NoSql, "ok", "ok", "ok", "ok")
        IN  /\ second.res.success \/ second.res.cause = "NotFound"
            /\ second.history = history

RollbackOps ==
    {"rollbackMigration", "rollbackMigrationWithDownSql", "rollbackToVersion",
     "rollbackLastMigrations"}

IsLedgerWrite(e) == e.to = "ledger" /\ e.op # "select"

\* C11: no rollback operation (rollbackMigration,
\* rollbackMigrationWithDownSql, rollbackToVersion, rollbackLastMigrations)
\* removes or changes a Rollback Ledger row or sends the ledger a write:
\* after the call the ledger holds every row it held before, those of
\* versions whose History Store row the call deleted included.
C11_RollbackKeepsLedger ==
    last.op \in RollbackOps =>
        /\ ledger = last.before.ledger
        /\ \A i \in DOMAIN last.traffic : ~IsLedgerWrite(last.traffic[i])

C11_Witness ==
    /\ last.op \in RollbackOps
    /\ last.res.success
    /\ \E v \in LedgerVersions(ledger) :
          /\ v \in HistoryVersions(last.before.history)
          /\ v \notin HistoryVersions(history)

\* an endpoint of the Execution Gateway applied the forward payload
ForwardApplied(traffic) ==
    \E i \in DOMAIN traffic :
        /\ IsGateway(traffic[i])
        /\ traffic[i].text \in UpSql
        /\ traffic[i].outcome = "ok"

\* the forward step of the call ran and no endpoint applied the payload
ForwardFailed(call) == Len(call.traffic) > 0 /\ ~ForwardApplied(call.traffic)

\* C12: when the forward step of createMigrationWithRollback fails, the
\* call returns the failure result of deployMigration unchanged, sends the
\* Rollback Ledger no request, does not provision the ledger table, and
\* leaves the ledger as it was.
C12_FailedForwardSkipsLedger ==
    (last.op = "createMigrationWithRollback" /\ ForwardFailed(last)) =>
        /\ ~last.res.success
        /\ \E sql \in UpSql, name \in Names :
              last.res = deployMigration(last.before.history, last.before.ledger,
                             ledgerExists, sql, name, AllocateVersion(now, 0),
                             last.traffic[1].outcome,
                             IF Len(last.traffic) > 1 THEN last.traffic[2].outcome
                             ELSE "ok").res
        /\ \A i \in DOMAIN last.traffic :
              /\ last.traffic[i].to # "ledger"
              /\ last.traffic[i].text \in UpSql
        /\ ledger = last.before.ledger

C12_Witness ==
    /\ last.op = "createMigrationWithRollback"
    /\ ForwardFailed(last)
    /\ Len(last.res.data) > 0
    /\ ledgerExists

\* the positions of the traffic at which a row was sent to the ledger
LedgerInsertsAt(traffic) ==
    {i \in DOMAIN traffic : traffic[i].to = "ledger" /\ traffic[i].op = "insert"}

ProvisionSql == "CREATE TABLE IF NOT EXISTS _migration_rollbacks"

\* the positions at which the ledger table was provisioned
ProvisionsAt(traffic) ==
    {i \in DOMAIN traffic : IsGateway(traffic[i]) /\ traffic[i].text = ProvisionSql}

FirstInsertAt(traffic) ==
    CHOOSE i \in LedgerInsertsAt(traffic) : \A j \in LedgerInsertsAt(traffic) : i <= j

\* the traffic ends with: failed insert, provisioning, one more insert
RetriedOnce(traffic) ==
    LET k == FirstInsertAt(traffic)
    IN  /\ Len(traffic) = k + 2
        /\ ProvisionsAt(traffic) = {k + 1}
        /\ LedgerInsertsAt(traffic) = {k, k + 2}

\* the traffic ends with the first insert
NotRetried(traffic) ==
    /\ Len(traffic) = FirstInsertAt(traffic)
    /\ ProvisionsAt(traffic) = {}
    /\ LedgerInsertsAt(traffic) = {FirstInsertAt(traffic)}

C14_LedgerFailureSurfaced ==
    last.op = "createMigrationWithRollback" =>
        /\ ( /\ LedgerInsertsAt(last.traffic) # {}
             /\ \A i \in LedgerInsertsAt(last.traffic) : last.traffic[i].outcome # "ok" )
           => (~last.res.success /\ last.res.cause = "StoreError")
        /\ (last.res.success /\ last.res.error = "")
           => \E r \in ledger : r.down_sql = last.downSql

\* C15: whenever the forward payload of a createMigrationWithRollback was
\* applied, then whatever the ledger insert, the provisioning and the retry
\* did (an error returned or an exception thrown), the call still reports
\* success, its data is the applied Migration that deployMigration
\* returned, and no History Store row is gone.
C15_LedgerFailureKeepsForward ==
    (last.op = "createMigrationWithRollback" /\ ForwardApplied(last.traffic)) =>
        /\ last.res.success
        /\ Len(last.res.data) = 1
        /\ last.res.data[1].version = AllocateVersion(now, 0)
        /\ last.res.data[1].status = "applied"
        /\ last.before.history \subseteq history

\* the response is the one that reports missing rollback data
ReportsNoRollbackData(res) == ~res.success /\ res.error = "No rollback SQL found"

\* C16: rollbackMigrationWithDownSql(v) for a version without a Rollback
\* Ledger row, the ledger answering, fails reporting missing rollback data,
\* sends the Execution Gateway nothing and leaves the History Store as it
\* was; and missing rollback data is reported only when the ledger holds no
\* row for v, never when the ledger could not be read.
C16_NoRollbackDataOnlyWhenAbsent ==
    last.op = "rollbackMigrationWithDownSql" =>
        /\ ( /\ last.version \notin LedgerVersions(last.before.ledger)
             /\ last.traffic[1].outcome # "throw" )
           => /\ ReportsNoRollbackData(last.res)
              /\ \A i \in DOMAIN last.traffic : ~IsGateway(last.traffic[i])
              /\ history = last.before.history
        /\ ReportsNoRollbackData(last.res)
           => last.version \notin LedgerVersions(last.before.ledger)

\* C17: a createMigrationWithRollback writes a Rollback Ledger row only
\* for a version that has a History Store row, or had one: every row the
\* call added to the ledger is for a version the History Store holds when
\* the call returns or held when the call began.
C17_LedgerRowsAreRecorded ==
    last.op = "createMigrationWithRollback" =>
        \A r \in ledger \ last.before.ledger :
            r.version \in HistoryVersions(history) \cup HistoryVersions(last.before.history)

\* the arguments of the call are not what the schema of its tool admits
Malformed(call) ==
    \/ /\ call.op \in {"getMigrationStatus", "rollbackMigration",
                       "rollbackMigrationWithDownSql", "rollbackToVersion"}
       /\ ~versionSchema(call.version)
    \/ call.op = "rollbackLastMigrations" /\ ~countSchema(call.count)
    \/ call.op = "deployMigration" /\ ~deployMigrationSchema(call.sql, call.name)
    \/ /\ call.op = "createMigrationWithRollback"
       /\ ~createMigrationWithRollbackSchema(call.name, call.sql, call.downSql)

\* C18: a call with malformed arguments (a version that is not 14 digits
\* given to getMigrationStatus, rollbackMigration,
\* rollbackMigrationWithDownSql or rollbackToVersion, a count outside 1..100
\* given to rollbackLastMigrations, an empty name or SQL given to a creating
\* tool) is answered with a validation error before any request to a store
\* or to the Execution Gateway, and both stores are as they were.
C18_MalformedInputRejected ==
    Malformed(last) =>
        /\ ~last.res.success
        /\ last.res.cause = "ValidationError"
        /\ last.traffic = <<>>
        /\ history = last.before.history
        /\ ledger = last.before.ledger

\* a collaborator rejected a request of the call with an exception
Threw(call) == \E i \in DOMAIN call.traffic : call.traffic[i].outcome = "throw"

\* C19: every call, whatever its collaborators returned or threw, ends with
\* a response {success, data?, error?} handed to the caller, and a response
\* with success = false carries an error text; that holds as well for a
\* call whose tool handler threw at validation, which the tool boundary
\* answers with {success: false, error}.
C19_EveryCallReturnsResponse ==
    last.op # "idle" =>
        /\ DOMAIN last.res = {"success", "data", "error", "cause"}
        /\ last.res.success \in BOOLEAN
        /\ ~last.res.success => last.res.error # ""
        /\ (last.op \in {"deployMigration", "createMigrationWithRollback"} /\ Malformed(last)) =>
              ~last.res.success /\ last.res.error = "Validation failed"

C19_Witness ==
    /\ last.op \in RollbackOps \cup {"createMigrationWithRollback"}
    /\ Threw(last)
    /\ ~last.res.success
    /\ last.res.error # ""

\* a delete of the call on the History Store did not succeed
DeleteFailed(call) ==
    \E i \in DOMAIN call.traffic :
        IsHistoryDelete(call.traffic[i]) /\ call.traffic[i].outcome # "ok"

\* C20: when a delete of rollbackToVersion or rollbackLastMigrations fails
\* partway, by an error returned or an exception thrown, the response
\* carries as data the versions whose rows the call did delete, and every
\* version in that list is absent from the History Store after the call.
C20_PartialProgressReported ==
    (last.op \in {"rollbackToVersion", "rollbackLastMigrations"} /\ DeleteFailed(last)) =>
        /\ Elements(last.res.data)
             = HistoryVersions(last.before.history) \ HistoryVersions(history)
        /\ \A i \in DOMAIN last.res.data :
              last.res.data[i] \notin HistoryVersions(history)

\* both concurrent calls have produced their response
BothDone == \A c \in Callers : calls[c].pc = "done"

\* the store answered every request of both calls without error
NoFault == \A c \in Callers : ~calls[c].faulted

\* C21: when two callers run rollbacks (bulk or single) over overlapping
\* versions, in every interleaving of their selects and deletes, the
\* delete that reaches a row second is a no-op: a call whose requests the
\* store answered without error returns success, and when that is so for
\* both calls every version either call selected is absent from the
\* History Store at the end.
C21_OverlappingRollbacks ==
    BothDone =>
        /\ \A c \in Callers : ~calls[c].faulted => calls[c].res.success
        /\ NoFault =>
              \A c \in Callers : \A v \in Elements(calls[c].selected) :
                  v \notin HistoryVersions(history)

C21_Witness ==
    /\ BothDone
    /\ NoFault
    /\ calls["A"].removed # {}
    /\ calls["B"].removed # {}
    /\ \E v \in calls["A"].removed : v \in Elements(calls["B"].selected)
    /\ \E v \in calls["B"].removed : v \in Elements(calls["A"].selected)

\* a rollback that is to remove History Store rows only
HistoryOnly(call) ==
    \/ call.op \in {"rollbackToVersion", "rollbackLastMigrations"}
    \/ call.op = "rollbackMigration" /\ call.downSql = NoSql

\* C22 as stated: rollbackToVersion, rollbackLastMigrations and
\* rollbackMigration without down SQL send the Execution Gateway nothing,
\* whatever the deletes on the History Store returned, and only delete
\* History Store rows.
C22_HistoryOnlyNoGateway ==
    HistoryOnly(last) =>
        /\ \A i \in DOMAIN last.traffic : ~IsGateway(last.traffic[i])
        /\ history \subseteq last.before.history
        /\ ledger = last.before.ledger

\* C22 as amended: the bulk rollbacks send the Execution Gateway nothing;
\* rollbackMigration without down SQL sends it no caller-supplied or
\* stored payload, and sends it one DELETE statement for the row of its
\* version exactly when the delete on the History Store returned an error;
\* all three only delete History Store rows.
C22_GatewayOnlyForFallbackDelete ==
    HistoryOnly(last) =>
        /\ UserSqlAt(last.traffic) = {}
        /\ last.op # "rollbackMigration" =>
              \A i \in DOMAIN last.traffic : ~IsGateway(last.traffic[i])
        /\ \A i \in DOMAIN last.traffic :
              IsGateway(last.traffic[i]) =>
                /\ i = 2 /\ Len(last.traffic) = 2
                /\ last.traffic[i].version = last.version
                /\ IsHistoryDelete(last.traffic[1])
                /\ last.traffic[1].outcome = "error"
        /\ (last.op = "rollbackMigration" /\ last.traffic[1].outcome = "error") =>
              Len(last.traffic) = 2
        /\ history \subseteq last.before.history
        /\ ledger = last.before.ledger

C22_Witness ==
    /\ last.op = "rollbackMigration"
    /\ last.downSql = NoSql
    /\ \E i \in DOMAIN last.traffic : IsGateway(last.traffic[i])
    /\ last.version \in HistoryVersions(last.before.history)
    /\ last.version \notin HistoryVersions(history)

\* the positions of the traffic at which a History Store delete was issued
HistoryDeletesAt(traffic) == {i \in DOMAIN traffic : IsHistoryDelete(traffic[i])}

\* C23: within one rollbackToVersion or rollbackLastMigrations call the
\* deletes on the History Store are issued strictly newest-first: of two
\* deletes the earlier one names the greater version, whatever the deletes
\* returned.
C23_DeletesNewestFirst ==
    last.op \in {"rollbackToVersion", "rollbackLastMigrations"} =>
        \A i, j \in HistoryDeletesAt(last.traffic) :
            i < j => TextGT(last.traffic[i].version, last.traffic[j].version)

C23_Witness ==
    /\ last.op = "rollbackLastMigrations"
    /\ Cardinality(HistoryDeletesAt(last.traffic)) >= 2
    /\ \E i \in HistoryDeletesAt(last.traffic) : last.traffic[i].outcome = "error"

\* the rows of the History Store a list of Migrations stands for
RowsOf(data) == {[version |-> data[i].version, name |-> data[i].name] : i \in DOMAIN data}

\* C24: a listMigrations the store answered returns one Migration per row
\* of the History Store as it is at the time of the call, ordered by
\* version descending; the call changes neither store; and listMigrations
\* issued after any other call returns exactly the rows that call left.
C24_ListIsLiveAndOrdered ==
    /\ (last.op = "listMigrations" /\ AllAnswered(last)) =>
          /\ last.res.success
          /\ Len(last.res.data) = Cardinality(history)
          /\ RowsOf(last.res.data) = history
          /\ \A i, j \in DOMAIN last.res.data :
                i < j => TextGT(last.res.data[i].version, last.res.data[j].version)
    /\ last.op = "listMigrations" =>
          /\ history = last.before.history
          /\ ledger = last.before.ledger
    /\ ListNow.success
    /\ Len(ListNow.data) = Cardinality(history)
    /\ RowsOf(ListNow.data) = history

C24_Witness ==
    /\ last.op = "listMigrations"
    /\ AllAnswered(last)
    /\ Len(last.res.data) >= 2
    /\ ledger # {}

\* the number a text of digits denotes
RECURSIVE Number(_)
Number(digits) ==
    IF digits = <<>> THEN 0
    ELSE 10 * Number(SubSeq(digits, 1, Len(digits) - 1))
           + (CharIndex(digits[Len(digits)]) - 1)

\* days since 1970-01-01 of a date of the proleptic Gregorian calendar
DaysFromCivil(y, m, d) ==
    LET yy  == IF m <= 2 THEN y - 1 ELSE y
        era == yy \div 400
        yoe == yy - era * 400
        doy == (153 * (IF m > 2 THEN m - 3 ELSE m + 9) + 2) \div 5 + d - 1
        doe == yoe * 365 + yoe \div 4 - yoe \div 100 + doy
    IN  era * 146097 + doe - 719468

\* the clock second that the text YYYYMMDDHHMMSS names (UTC)
SecondNamed(version) ==
    DaysFromCivil(Number(SubSeq(version, 1, 4)), Number(SubSeq(version, 5, 6)),
                  Number(SubSeq(version, 7, 8))) * 86400
      + Number(SubSeq(version, 9, 10)) * 3600
      + Number(SubSeq(version, 11, 12)) * 60
      + Number(SubSeq(version, 13, 14))

\* C25: the version a creation call returns is 14 digits, the
\* YYYYMMDDHHMMSS rendering of the clock second at which it was allocated;
\* with the clock not going back, it is never smaller than the version the
\* creation call before it returned: equal when both allocated in the same
\* second, strictly greater when in a later one.
C25_AllocatorFollowsClock ==
    IsCreation(last) =>
        /\ versionSchema(last.version)
        /\ SecondNamed(last.version) = issued.sec
        /\ last.before.issued.version # NoVersion =>
              /\ ~TextGT(last.before.issued.version, last.version)
              /\ (issued.sec = last.before.issued.sec)
                    <=> (last.version = last.before.issued.version)
              /\ (issued.sec > last.before.issued.sec)
                    <=> TextGT(last.version, last.before.issued.version)

C25_Witness ==
    /\ last.op = "deployMigration"
    /\ IsCreation(last)
    /\ last.before.issued.version # NoVersion
    /\ issued.sec > last.before.issued.sec
    /\ last.version[4] # last.before.issued.version[4]

\* the SystemHealthReport of the verify_setup call being answered
Report == health.res.data[1]

SelectedBy(call) ==
    IF call.op = "rollbackToVersion"
    THEN SelectAfter(call.before.history, call.version)
    ELSE SelectLast(call.before.history, call.count)

\* C27: in rollbackToVersion and rollbackLastMigrations a delete that
\* fails does not stop the batch: a delete is issued for every selected
\* version, the call returns success, the returned list holds exactly the
\* selected versions whose delete reported no error, in the order
\* selected, and a version whose delete failed is still in the History
\* Store.
C27_FailedDeleteDoesNotStopBatch ==
    (last.op \in {"rollbackToVersion", "rollbackLastMigrations"} /\ DeleteFailed(last)) =>
        LET selected == SelectedBy(last)
            deletes  == SubSeq(last.traffic, 2, Len(last.traffic))
        IN  /\ Len(deletes) = Len(selected)
            /\ \A i \in DOMAIN deletes :
                  IsHistoryDelete(deletes[i]) /\ deletes[i].version = selected[i]
            /\ last.res.success
            /\ Elements(last.res.data)
                 = {deletes[i].version : i \in {j \in DOMAIN deletes : deletes[j].outcome = "ok"}}
            /\ \A i, j \in DOMAIN last.res.data :
                  i < j => TextGT(last.res.data[i], last.res.data[j])
            /\ \A i \in DOMAIN deletes :
                  deletes[i].outcome # "ok" =>
                    deletes[i].version \in HistoryVersions(history)

IsBulk(call) == call.op \in {"rollbackToVersion", "rollbackLastMigrations"}

\* C28: under two concurrent bulk rollbacks every removed row is
\* attributed to one call: no version is in the rolledBack lists of both
\* calls, and a version is in the list of a call only if a delete of that
\* call removed its row.
C28_RemovedRowAttributedOnce ==
    (IsBulk(calls["A"]) /\ IsBulk(calls["B"])) =>
        /\ Elements(calls["A"].rolledBack) \cap Elements(calls["B"].rolledBack) = {}
        /\ \A c \in Callers : Elements(calls[c].rolledBack) \subseteq calls[c].removed

\* C29: every Migration that listMigrations or a successful
\* getMigrationStatus returns has status applied; the queries never report
\* pending or failed, so the version of a deployMigration that returned a
\* pending Migration reads as applied whenever the History Store has a row
\* for it.
C29_QueriesReportApplied ==
    /\ last.op \in {"listMigrations", "getMigrationStatus"} =>
          \A i \in DOMAIN last.res.data : last.res.data[i].status = "applied"
    /\ \A i \in DOMAIN ListNow.data : ListNow.data[i].status = "applied"
    /\ \A v \in ToolVersions :
          StatusNow(v).success => StatusNow(v).data[1].status = "applied"
    /\ (last.op = "deployMigration" /\ Len(last.res.data) > 0) =>
          (StatusNow(last.version).success
             => StatusNow(last.version).data[1].status = "applied")

C29_Witness ==
    /\ last.op = "deployMigration"
    /\ ~last.res.success
    /\ Len(last.res.data) > 0
    /\ last.res.data[1].status = "pending"
    /\ StatusNow(last.version).success
    /\ StatusNow(last.version).data[1].status = "applied"

DeploySteps == <<"createApplication", "updateApplicationEnv", "deployApplication">>

UpdateSteps == <<"getApplication", "updateApplicationEnv", "restartApplication">>

\* the requests sent are the first steps of the order, each sent after the
\* one before it succeeded
InOrder(sent, steps) ==
    /\ Len(sent) <= Len(steps)
    /\ \A i \in DOMAIN sent :
          /\ sent[i].op = steps[i]
          /\ i > 1 => sent[i - 1].outcome = "ok"

AllSucceeded(sent, steps) ==
    /\ Len(sent) = Len(steps)
    /\ \A i \in DOMAIN sent : sent[i].outcome = "ok"

\* C30: deploy_supabase_to_coolify sends create application, update
\* environment, deploy in that order and stops at the first failing step:
\* a step is sent only after the one before it succeeded, the environment
\* update and the deploy go to the application that was created, and
\* success with credentials is returned only when all three succeeded;
\* update_supabase_deployment restarts the application only after its
\* environment update succeeded.
C30_StepsInOrderStopAtFailure ==
    LET run == platform.run
    IN  /\ run.op = "deploy_supabase_to_coolify" =>
              /\ InOrder(run.sent, DeploySteps)
              /\ \A i \in DOMAIN run.sent :
                    i > 1 => /\ run.sent[i].uuid = run.uuid
                             /\ run.uuid \in AppUuids(platform.apps)
              /\ (run.pc = "done" /\ run.res.success) =>
                    /\ AllSucceeded(run.sent, DeploySteps)
                    /\ Len(run.res.data) = 1
                    /\ run.res.data[1].credentials = Credentials
                    /\ run.res.data[1].uuid = run.uuid
              /\ (run.pc = "done" /\ ~run.res.success) =>
                    ~AllSucceeded(run.sent, DeploySteps)
        /\ run.op = "update_supabase_deployment" =>
              /\ InOrder(run.sent, UpdateSteps)
              /\ (run.pc = "done" /\ run.res.success) =>
                    AllSucceeded(run.sent, UpdateSteps)

\* a deployment stopped at its failed environment update, on a platform that
\* holds an application an earlier call deployed and updated
C30_Witness ==
    LET run == platform.run
    IN  /\ run.op = "deploy_supabase_to_coolify"
        /\ run.pc = "done"
        /\ ~run.res.success
        /\ Len(run.sent) = 2
        /\ run.sent[2].outcome = "error"
        /\ \E a \in platform.apps : a.deployed /\ a.restarted /\ a.env = "16"

====
